---- MODULE Spec2Model ----
(***************************************************************************)
(* Model of the YouTube statistics collector (YouTubeStatsCollector.run    *)
(* and its helpers).  The run is one asynchronous call tree: actions are   *)
(* the resumptions of its awaits.  The upstream API, the clock and the     *)
(* filesystem are the environment.                                         *)
(***************************************************************************)
EXTENDS Integers, Sequences, FiniteSets, TLC

(* ------------------------------ bounds --------------------------------- *)
\* number of videos of the channel in the run specification
MaxVideos == 3
\* largest channel of the lister specification (three pages of maxResults)
MaxChannel == 120
\* retries granted by the retry policy (attempts = Retries + 1)
Retries == 2

(* ------------------------- program constants --------------------------- *)
\* page size asked of search.list
maxResults == 50
\* budget of the reconciliation loop: while (retrys < 3 && ...)
RetryBudget == 3

VARIABLES
  channel,            \* upstream: ids of the channel's videos, in listing order
  deleted,            \* upstream: ids deleted since they were listed; their
                      \* videos.list lookup returns no item from then on
  view,               \* upstream: the listing served to the pass in progress
  pc,                 \* position of run
  lstate,             \* #getAllVideos call: "idle", "fetching", "returned", "rejected"
  pageToken,          \* pageToken of the page request in flight
  acc,                \* videos accumulated by the #getAllVideos call
  attempt,            \* attemptNumber of the page request in flight, or of
                      \* the last one once the call has returned
  retryLog,           \* failed-attempt events logged for that page request
  pageFetches,        \* page requests answered in the pass in progress
  passes,             \* history: the lists the listing passes have returned to
                      \* the reconciliation (kept until the stats phase starts)
  videos1, videos2, videos, retrys,
  statRes,            \* slots of the Promise.all over the selected videos
  statAttempt,        \* attemptNumber of each stat request in flight (0: none)
  statLog,            \* failed-attempt events logged for each stat request in
                      \* flight
  statCalls,          \* number of #getVideoStats invocations of this run
  videoStats, videoStatsAttepts,
  formattedStats,
  filePaths,          \* the two paths computed by writeData
  wstate,             \* per path: "idle", "mkdir", "write", "done", "failed"
  files,              \* filesystem: path -> content
  dirs                \* filesystem: existing directories

listerVars == <<view, lstate, pageToken, acc, attempt, retryLog, pageFetches>>
reconcVars == <<passes, videos1, videos2, videos, retrys>>
statVars   == <<statRes, statAttempt, statLog, statCalls, videoStats,
               videoStatsAttepts>>
writeVars  == <<formattedStats, filePaths, wstate, files, dirs>>
vars == <<channel, deleted, pc, listerVars, reconcVars, statVars, writeVars>>

(* ------------------------------ helpers -------------------------------- *)
Min(a, b) == IF a <= b THEN a ELSE b

Range(s) == {s[i] : i \in 1..Len(s)}

\* the ascending sequence of a finite set of integers
RECURSIVE SortedSeq(_)
SortedSeq(S) ==
  IF S = {} THEN <<>>
  ELSE LET m == CHOOSE x \in S : \A y \in S : x <= y
       IN <<m>> \o SortedSeq(S \ {m})

Upto(n) == [i \in 1..n |-> i]

\* the empty page token ("" in the source; a missing nextPageToken is falsy too)
NoToken == 0

\* a value the source leaves undefined
Undefined == [kind |-> "undefined"]

(* --------------------------- upstream API ------------------------------ *)
\* search.list: the page of listing v that starts at token.  The upstream
\* serves full pages: maxResults items while that many remain, and a
\* nextPageToken exactly when items remain after the page; items is missing
\* on an empty page
SearchList(v, token) ==
  LET last  == Min(token + maxResults, Len(v))
      page  == SubSeq(v, token + 1, last)
  IN [ items |-> [i \in 1..Len(page) |->
                    [kind |-> "youtube#searchResult", id |-> [videoId |-> page[i]]]],
       hasItems |-> page # <<>>,
       nextPageToken |-> IF last < Len(v) THEN last ELSE NoToken ]

\* the video resource of id v
VideoResource(v) ==
  [ kind |-> "youtube#video", id |-> v,
    snippet |-> [ title |-> "title-" \o ToString(v),
                  description |-> "description-" \o ToString(v),
                  publishedAt |-> "publishedAt-" \o ToString(v),
                  thumbnails |-> "thumbnails-" \o ToString(v) ],
    statistics |-> [ viewCount |-> "viewCount-" \o ToString(v),
                     likeCount |-> "likeCount-" \o ToString(v) ] ]

\* videos.list for one id, del being the deleted videos: response.data.items
VideosList(del, videoId) ==
  IF videoId \in del THEN <<>> ELSE <<VideoResource(videoId)>>

(* ------------------------------- retry --------------------------------- *)
\* the error handed to onFailedAttempt when attempt n fails
FailedAttempt(n) == [attemptNumber |-> n, retriesLeft |-> Retries - (n - 1)]

\* a variant of the callback that counts the attempts from 0
OnFailedAttemptFromZero(log, e) ==
  Append(log, [e EXCEPT !.attemptNumber = @ - 1])

\* lines 9-13: onFailedAttempt logs the attempt number and the retries left
OnFailedAttempt(log, e) == Append(log, e)

(* -------------------------- #getAllVideos ------------------------------ *)
\* data.items?.map((item) => ({ id: item.id.videoId })) || []
PageVideos(data) ==
  IF ~data.hasItems THEN <<>>
  ELSE [i \in 1..Len(data.items) |-> [id |-> data.items[i].id.videoId]]

\* no #getAllVideos call is active: the frames of the last one are gone
ListerIdle ==
  /\ lstate' = "idle"
  /\ pageToken' = NoToken
  /\ acc' = <<>>
  /\ attempt' = 1
  /\ retryLog' = <<>>
  /\ pageFetches' = 0
  /\ view' = <<>>

\* a new #getAllVideos(channelId) call issues its first page request
StartPass ==
  /\ lstate' = "fetching"
  /\ pageToken' = NoToken
  /\ acc' = <<>>
  /\ attempt' = 1
  /\ retryLog' = <<>>
  /\ pageFetches' = 0
  /\ view' = <<>>

\* videos.push(...nextVideos), a variant that replaces instead of appending
PushReplaces(vs, nextVideos) == nextVideos

\* lines 91-92: videos.push(...nextVideos)
PushAll(vs, nextVideos) == vs \o nextVideos

\* the page request in flight is answered; served is the listing the upstream
\* serves to a pass that starts now
FetchPage(served) ==
  /\ lstate = "fetching"
  /\ pc \in {"fetch1", "fetch2", "fetchRetry"}
  /\ LET v       == IF pageToken = NoToken THEN served ELSE view
         data    == SearchList(v, pageToken)
         newAcc  == PushAll(acc, PageVideos(data))
     IN /\ view' = v
        /\ acc' = newAcc
        /\ pageFetches' = pageFetches + 1
        /\ IF data.nextPageToken # NoToken
             THEN /\ pageToken' = data.nextPageToken
                  /\ lstate' = "fetching"
                  /\ attempt' = 1
                  /\ retryLog' = <<>>
             ELSE /\ pageToken' = pageToken
                  /\ lstate' = "returned"
                  /\ UNCHANGED <<attempt, retryLog>>
  /\ UNCHANGED <<channel, deleted, pc, reconcVars, statVars, writeVars>>

\* an attempt of the page request fails and the retry policy tries again
FetchPageRetry ==
  /\ lstate = "fetching"
  /\ pc \in {"fetch1", "fetch2", "fetchRetry"}
  /\ attempt <= Retries
  /\ attempt' = attempt + 1
  /\ retryLog' = OnFailedAttempt(retryLog, FailedAttempt(attempt))
  /\ UNCHANGED <<channel, deleted, pc, view, lstate, pageToken, acc, pageFetches,
                 reconcVars, statVars, writeVars>>

\* a variant in which the failure of the last attempt is not propagated to run
FetchPageExhaustedSwallowed ==
  /\ lstate = "fetching"
  /\ pc \in {"fetch1", "fetch2", "fetchRetry"}
  /\ attempt > Retries
  /\ lstate' = "rejected"
  /\ retryLog' = OnFailedAttempt(retryLog, FailedAttempt(attempt))
  /\ UNCHANGED <<channel, deleted, pc, view, pageToken, acc, attempt, pageFetches,
                 reconcVars, statVars, writeVars>>

\* the last attempt of the page request fails: the rejection propagates
\* through every enclosing #getAllVideos call and through run
FetchPageExhausted ==
  /\ lstate = "fetching"
  /\ pc \in {"fetch1", "fetch2", "fetchRetry"}
  /\ attempt > Retries
  /\ lstate' = "rejected"
  /\ pc' = "failed"
  /\ retryLog' = OnFailedAttempt(retryLog, FailedAttempt(attempt))
  /\ UNCHANGED <<channel, deleted, view, pageToken, acc, attempt, pageFetches,
                 reconcVars, statVars, writeVars>>

(* ------------------------------- run ----------------------------------- *)
\* lines 31-33: the first pass has returned, the second is issued
Fetch1Done ==
  /\ pc = "fetch1"
  /\ lstate = "returned"
  /\ videos1' = acc
  /\ passes' = Append(passes, acc)
  /\ pc' = "fetch2"
  /\ StartPass
  /\ UNCHANGED <<channel, deleted, videos2, videos, retrys, statVars, writeVars>>

\* lines 33-37: the second pass has returned
Fetch2Done ==
  /\ pc = "fetch2"
  /\ lstate = "returned"
  /\ videos2' = acc
  /\ passes' = Append(passes, acc)
  /\ videos' = IF Len(videos1) >= Len(acc) THEN videos1 ELSE acc
  /\ retrys' = 0
  /\ pc' = "loop"
  /\ ListerIdle
  /\ UNCHANGED <<channel, deleted, videos1, statVars, writeVars>>

\* line 50: the attempt count of the summary line, n being retrys
SummaryAttempts(n) == 2 + n

\* lines 50-54, reached by the loop condition or by break
LeaveReconciliation ==
  /\ pc' = "stats"
  /\ ListerIdle
  /\ videoStats' = <<>>
  /\ videoStatsAttepts' = 0

\* variants of the loop condition: without the comparison of the two initial
\* counts, and with an off-by-one budget
LoopConditionBudgetOnly(n, a, b) == n < RetryBudget
LoopConditionOffByOne(n, a, b) == n <= RetryBudget /\ Len(a) # Len(b)

\* line 38: while (retrys < 3 && videos1.length !== videos2.length)
LoopCondition(n, a, b) == n < RetryBudget /\ Len(a) # Len(b)

LoopCheck ==
  /\ pc = "loop"
  /\ IF LoopCondition(retrys, videos1, videos2)
       THEN /\ pc' = "fetchRetry"
            /\ StartPass
            /\ UNCHANGED <<videoStats, videoStatsAttepts>>
       ELSE LeaveReconciliation
  /\ UNCHANGED <<channel, deleted, reconcVars, statRes, statAttempt, statLog,
                 statCalls, writeVars>>

\* a variant that always keeps the new pass
KeepLatest(best, placeholder) == placeholder

\* lines 41-43: keep the larger of the running best and the new pass
KeepLargest(best, placeholder) ==
  IF Len(placeholder) > Len(best) THEN placeholder ELSE best

\* variants of the break condition that compare with one initial pass only
BreakOnFirstOnly(best, a, b) == Len(best) = Len(a)
BreakOnSecondOnly(best, a, b) == Len(best) = Len(b)

\* a variant that never breaks
BreakNever(best, a, b) == FALSE

\* line 44: the break condition
BreakCondition(best, a, b) == Len(best) = Len(a) \/ Len(best) = Len(b)

\* lines 39-47: an additional pass has returned
FetchRetryDone ==
  /\ pc = "fetchRetry"
  /\ lstate = "returned"
  /\ passes' = Append(passes, acc)
  /\ videos' = KeepLargest(videos, acc)
  /\ IF BreakCondition(videos', videos1, videos2)
       THEN /\ retrys' = retrys
            /\ LeaveReconciliation
       ELSE /\ retrys' = retrys + 1
            /\ pc' = "loop"
            /\ ListerIdle
            /\ UNCHANGED <<videoStats, videoStatsAttepts>>
  /\ UNCHANGED <<channel, deleted, videos1, videos2, statRes, statAttempt,
                 statLog, statCalls, writeVars>>

(* ---------------------------- stats phase ------------------------------ *)
Pending == [kind |-> "pending"]

\* #getVideoStats: response.data.items?.[0]
FirstItem(items) == IF Len(items) = 0 THEN Undefined ELSE items[1]

\* a variant of the loop test that counts the records present
StatsLoopConditionPresent(vs, stats) ==
  Len(vs) # Len(SelectSeq(stats, LAMBDA r : r.kind # "undefined"))

\* lines 55-58: the loop test and, when it holds, the launch of one
\* #getVideoStats per selected video.  The history of the listing phase is
\* dropped here: nothing after line 50 reads it
StatsLoopCondition(vs, stats) == Len(vs) # Len(stats)

StatsLoop ==
  /\ pc = "stats"
  /\ IF StatsLoopCondition(videos, videoStats)
       THEN /\ pc' = "statsWait"
            /\ statRes' = [i \in 1..Len(videos) |-> Pending]
            /\ statAttempt' = [i \in 1..Len(videos) |-> 1]
            /\ statLog' = [i \in 1..Len(videos) |-> <<>>]
            /\ statCalls' = statCalls + Len(videos)
       ELSE /\ pc' = "format"
            /\ UNCHANGED <<statRes, statAttempt, statLog, statCalls>>
  /\ passes' = <<>>
  /\ UNCHANGED <<channel, deleted, listerVars, videos1, videos2, videos, retrys,
                 videoStats, videoStatsAttepts, writeVars>>

\* the stat request of slot i is answered; the video may have been deleted
\* since it was listed
StatFetch(i) ==
  /\ pc = "statsWait"
  /\ i \in 1..Len(statRes)
  /\ statRes[i] = Pending
  /\ \/ deleted' = deleted
     \/ deleted' = deleted \cup {videos[i].id}
  /\ statRes' = [statRes EXCEPT ![i] = FirstItem(VideosList(deleted', videos[i].id))]
  /\ statAttempt' = [statAttempt EXCEPT ![i] = 0]
  /\ statLog' = [statLog EXCEPT ![i] = <<>>]
  /\ UNCHANGED <<channel, pc, listerVars, reconcVars,
                 statCalls, videoStats, videoStatsAttepts, writeVars>>

\* an attempt of the stat request of slot i fails and is retried
StatFetchRetry(i) ==
  /\ pc = "statsWait"
  /\ i \in 1..Len(statRes)
  /\ statRes[i] = Pending
  /\ statAttempt[i] <= Retries
  /\ statAttempt' = [statAttempt EXCEPT ![i] = @ + 1]
  /\ statLog' = [statLog EXCEPT ![i] = OnFailedAttempt(@, FailedAttempt(statAttempt[i]))]
  /\ UNCHANGED <<channel, deleted, pc, listerVars, reconcVars, statRes,
                 statCalls, videoStats, videoStatsAttepts, writeVars>>

\* the last attempt of the stat request of slot i fails: Promise.all rejects
\* and the rejection propagates through run
StatFetchExhausted(i) ==
  /\ pc = "statsWait"
  /\ i \in 1..Len(statRes)
  /\ statRes[i] = Pending
  /\ statAttempt[i] > Retries
  /\ pc' = "failed"
  /\ statLog' = [statLog EXCEPT ![i] = OnFailedAttempt(@, FailedAttempt(statAttempt[i]))]
  /\ UNCHANGED <<channel, deleted, listerVars, reconcVars, statRes, statAttempt,
                 statCalls, videoStats, videoStatsAttepts, writeVars>>

\* a variant in which the batch result leaves out the absent entries
StatsJoinDropsAbsent ==
  /\ pc = "statsWait"
  /\ \A i \in 1..Len(statRes) : statRes[i] # Pending
  /\ videoStats' = SelectSeq(statRes, LAMBDA r : r # Undefined)
  /\ videoStatsAttepts' = videoStatsAttepts + 1
  /\ pc' = "stats"
  /\ UNCHANGED <<channel, deleted, listerVars, reconcVars, statRes, statAttempt,
                 statLog, statCalls, writeVars>>

\* a variant in which the batch resolves as soon as one slot has settled
StatsJoinEarly ==
  /\ pc = "statsWait"
  /\ \E i \in 1..Len(statRes) : statRes[i] # Pending
  /\ videoStats' = statRes
  /\ videoStatsAttepts' = videoStatsAttepts + 1
  /\ pc' = "stats"
  /\ UNCHANGED <<channel, deleted, listerVars, reconcVars, statRes, statAttempt,
                 statLog, statCalls, writeVars>>

\* lines 56-59: Promise.all resolves with one entry per slot, in slot order
StatsJoin ==
  /\ pc = "statsWait"
  /\ \A i \in 1..Len(statRes) : statRes[i] # Pending
  /\ videoStats' = statRes
  /\ videoStatsAttepts' = videoStatsAttepts + 1
  /\ pc' = "stats"
  /\ UNCHANGED <<channel, deleted, listerVars, reconcVars, statRes, statAttempt,
                 statLog, statCalls, writeVars>>

(* ------------------------------ formatter ------------------------------ *)
\* the value stored under video.id
FormatEntry(video) ==
  [ title |-> video.snippet.title,
    description |-> video.snippet.description,
    views |-> video.statistics.viewCount,
    likes |-> video.statistics.likeCount,
    published |-> video.snippet.publishedAt,
    thumbnails |-> video.snippet.thumbnails ]

\* formattedData[key] = value on an object held as its entries in insertion order
SetKey(obj, key, value) ==
  IF \E j \in 1..Len(obj) : obj[j].key = key
    THEN [j \in 1..Len(obj) |->
            IF obj[j].key = key THEN [key |-> key, value |-> value] ELSE obj[j]]
    ELSE Append(obj, [key |-> key, value |-> value])

\* a variant of the callback that stores the entry under a neighbouring key
FormatOneShifted(obj, video) ==
  IF video.kind # "undefined"
    THEN SetKey(obj, video.id + 1, FormatEntry(video))
    ELSE obj

\* the body of the forEach callback
FormatOne(obj, video) ==
  IF video.kind # "undefined"
    THEN SetKey(obj, video.id, FormatEntry(video))
    ELSE obj

\* a variant of the iteration that ends at the first absent entry
RECURSIVE FormatFromStopsAtAbsent(_, _, _)
FormatFromStopsAtAbsent(obj, data, i) ==
  IF i > Len(data) \/ data[i].kind = "undefined" THEN obj
  ELSE FormatFromStopsAtAbsent(FormatOne(obj, data[i]), data, i + 1)

\* data.forEach(...) from entry i on
RECURSIVE FormatFrom(_, _, _)
FormatFrom(obj, data, i) ==
  IF i > Len(data) THEN obj
  ELSE FormatFrom(FormatOne(obj, data[i]), data, i + 1)

formatData(data) == FormatFrom(<<>>, data, 1)

(* ------------------------------ persister ------------------------------ *)
\* instants the clock can show when writeData runs
Instants ==
  { [year |-> 2024, month |-> 3,  day |-> 8,  hour |-> 23, minute |-> 59, second |-> 59, ms |-> 999],
    [year |-> 2024, month |-> 3,  day |-> 9,  hour |-> 0,  minute |-> 5,  second |-> 7,  ms |-> 42],
    [year |-> 2024, month |-> 3,  day |-> 9,  hour |-> 23, minute |-> 59, second |-> 59, ms |-> 999] }

\* the instant of the run that left the files found at start
PriorInstant ==
  [year |-> 2024, month |-> 3, day |-> 8, hour |-> 6, minute |-> 30, second |-> 0, ms |-> 1]

\* the decimal digits of n, zero-padded to width w, one character per element
RECURSIVE Digits(_, _)
Digits(n, w) ==
  IF w = 0 THEN <<>> ELSE Digits(n \div 10, w - 1) \o <<ToString(n % 10)>>

\* Date.prototype.toISOString: YYYY-MM-DDTHH:mm:ss.sssZ
toISOString(t) ==
  Digits(t.year, 4) \o <<"-">> \o Digits(t.month, 2) \o <<"-">> \o Digits(t.day, 2)
    \o <<"T">> \o Digits(t.hour, 2) \o <<":">> \o Digits(t.minute, 2) \o <<":">>
    \o Digits(t.second, 2) \o <<".">> \o Digits(t.ms, 3) \o <<"Z">>

\* String.prototype.replace with a global pattern matching the characters of from
ReplaceAll(str, from, to) ==
  [i \in 1..Len(str) |-> IF str[i] \in from THEN to ELSE str[i]]

\* String.prototype.slice(b, e) with 0 <= b <= e
Slice(str, b, e) == SubSeq(str, b + 1, Min(e, Len(str)))

\* a variant that keeps the year and the month only
getCurrentDateTimeUTCMonth(now) ==
  ReplaceAll(Slice(ReplaceAll(toISOString(now), {":", "."}, "_"), 0, 7), {"-"}, "/")

\* lines 137-144: the UTC date of now as YYYY/MM/DD
getCurrentDateTimeUTC(now) ==
  ReplaceAll(Slice(ReplaceAll(toISOString(now), {":", "."}, "_"), 0, 10), {"-"}, "/")

RECURSIVE Join(_)
Join(str) == IF str = <<>> THEN "" ELSE Head(str) \o Join(Tail(str))

\* the segments of a character sequence between "/" characters
RECURSIVE Segments(_, _)
Segments(str, cur) ==
  IF str = <<>> THEN <<cur>>
  ELSE IF Head(str) = "/" THEN <<cur>> \o Segments(Tail(str), "")
  ELSE Segments(Tail(str), cur \o Head(str))

\* "./published/videoStats.json", as path segments
PrimaryPath == <<".", "published", "videoStats.json">>

\* `./published/archive/${date}.json`, as path segments
ArchivePath(date) ==
  LET segs == Segments(date, "")
  IN <<".", "published", "archive">> \o SubSeq(segs, 1, Len(segs) - 1)
       \o <<segs[Len(segs)] \o ".json">>

\* path.dirname
dirname(path) == SubSeq(path, 1, Len(path) - 1)

\* fs.mkdir(dir, { recursive: true }): dir and its missing ancestors
MkdirRecursive(ds, dir) == ds \cup {SubSeq(dir, 1, k) : k \in 1..Len(dir)}

\* one "key": { ... } member of the object, indented by two spaces
StringifyMember(e) ==
  "  \"" \o ToString(e.key) \o "\": {\n"
    \o "    \"title\": \"" \o e.value.title \o "\",\n"
    \o "    \"description\": \"" \o e.value.description \o "\",\n"
    \o "    \"views\": \"" \o e.value.views \o "\",\n"
    \o "    \"likes\": \"" \o e.value.likes \o "\",\n"
    \o "    \"published\": \"" \o e.value.published \o "\",\n"
    \o "    \"thumbnails\": \"" \o e.value.thumbnails \o "\"\n"
    \o "  }"

RECURSIVE StringifyMembers(_, _)
StringifyMembers(obj, i) ==
  IF i > Len(obj) THEN ""
  ELSE StringifyMember(obj[i]) \o (IF i < Len(obj) THEN ",\n" ELSE "\n")
         \o StringifyMembers(obj, i + 1)

\* a variant that breaks the braces of an empty object over two lines
StringifyNoEmptyCase(obj) == "{\n" \o StringifyMembers(obj, 1) \o "}"

\* JSON.stringify(data, null, 2)
Stringify(obj) ==
  IF Len(obj) = 0 THEN "{}" ELSE "{\n" \o StringifyMembers(obj, 1) \o "}"

\* the files and directories a previous run left behind
PriorContent == Stringify(formatData(<<VideoResource(1)>>))
PriorFiles ==
  (PrimaryPath :> PriorContent)
    @@ (ArchivePath(getCurrentDateTimeUTC(PriorInstant)) :> PriorContent)
PriorDirs ==
  MkdirRecursive(MkdirRecursive({}, dirname(PrimaryPath)),
                 dirname(ArchivePath(getCurrentDateTimeUTC(PriorInstant))))

\* lines 62-67 and writeData lines 148-157: format, compute the two paths,
\* start both writers (each first awaits its mkdir)
Format ==
  /\ pc = "format"
  /\ formattedStats' = formatData(videoStats)
  /\ \E now \in Instants :
       filePaths' = <<PrimaryPath, ArchivePath(getCurrentDateTimeUTC(now))>>
  /\ wstate' = [i \in 1..2 |-> "mkdir"]
  /\ pc' = "write"
  /\ UNCHANGED <<channel, deleted, listerVars, reconcVars, statVars, files, dirs>>

\* line 157 succeeds for writer i, which issues its writeFile (line 159)
MkdirOk(i) ==
  /\ i \in DOMAIN wstate
  /\ wstate[i] = "mkdir"
  /\ dirs' = MkdirRecursive(dirs, dirname(filePaths[i]))
  /\ wstate' = [wstate EXCEPT ![i] = "write"]
  /\ UNCHANGED <<channel, deleted, pc, listerVars, reconcVars, statVars,
                 formattedStats, filePaths, files>>

\* fs.writeFile succeeds for writer i (lines 159-160)
WriteOk(i) ==
  /\ i \in DOMAIN wstate
  /\ wstate[i] = "write"
  /\ files' = (filePaths[i] :> Stringify(formattedStats)) @@ files
  /\ wstate' = [wstate EXCEPT ![i] = "done"]
  /\ UNCHANGED <<channel, deleted, pc, listerVars, reconcVars, statVars,
                 formattedStats, filePaths, dirs>>

\* a variant in which a failing writer restores the files the run found
WriterFailsRollsBack(i) ==
  /\ i \in DOMAIN wstate
  /\ wstate[i] \in {"mkdir", "write"}
  /\ files' = PriorFiles
  /\ wstate' = [wstate EXCEPT ![i] = "failed"]
  /\ pc' = "failed"
  /\ UNCHANGED <<channel, deleted, listerVars, reconcVars, statVars,
                 formattedStats, filePaths, dirs>>

\* mkdir or writeFile of writer i fails: Promise.all rejects, the rejection
\* propagates through run; a failed writeFile leaves the file as it was or
\* truncated
WriterFails(i) ==
  /\ i \in DOMAIN wstate
  /\ wstate[i] \in {"mkdir", "write"}
  /\ \/ files' = files
     \/ /\ wstate[i] = "write"
        /\ files' = (filePaths[i] :> "") @@ files
  /\ wstate' = [wstate EXCEPT ![i] = "failed"]
  /\ pc' = "failed"
  /\ UNCHANGED <<channel, deleted, listerVars, reconcVars, statVars,
                 formattedStats, filePaths, dirs>>

\* a variant in which the join resolves as soon as one writer has finished
WriteJoinAny ==
  /\ pc = "write"
  /\ \E i \in DOMAIN wstate : wstate[i] = "done"
  /\ pc' = "done"
  /\ UNCHANGED <<channel, deleted, listerVars, reconcVars, statVars, writeVars>>

\* line 154 resolves and run logs "Mission complete!" (line 68)
WriteJoin ==
  /\ pc = "write"
  /\ \A i \in DOMAIN wstate : wstate[i] = "done"
  /\ pc' = "done"
  /\ UNCHANGED <<channel, deleted, listerVars, reconcVars, statVars, writeVars>>

(* --------------------------- specifications ---------------------------- *)
\* the state when run is entered: the first page request of the first pass is
\* in flight (line 31)
InitRun(ch, del) ==
  /\ channel = ch
  /\ deleted = del
  /\ pc = "fetch1"
  /\ lstate = "fetching" /\ pageToken = NoToken /\ acc = <<>> /\ attempt = 1
  /\ retryLog = <<>>
  /\ pageFetches = 0 /\ view = <<>>
  /\ passes = <<>>
  /\ videos1 = <<>> /\ videos2 = <<>> /\ videos = <<>> /\ retrys = 0
  /\ statRes = <<>> /\ statAttempt = <<>> /\ statLog = <<>> /\ statCalls = 0
  /\ videoStats = <<>> /\ videoStatsAttepts = 0
  /\ formattedStats = <<>>
  /\ filePaths = <<>>
  /\ wstate = [i \in 1..2 |-> "idle"]
  /\ files = PriorFiles
  /\ dirs = PriorDirs

\* the listings an eventually consistent upstream can serve for channel ch:
\* any of its videos may be missing from a pass
Views(ch) ==
  {[i \in 1..Cardinality(S) |-> ch[SortedSeq(S)[i]]] : S \in SUBSET (1..Len(ch))}

Reconcile == Fetch1Done \/ Fetch2Done \/ LoopCheck \/ FetchRetryDone

Init == \E n \in 0..MaxVideos : InitRun(Upto(n), {})

Next ==
  \/ \E v \in Views(channel) : FetchPage(v)
  \/ FetchPageRetry
  \/ FetchPageExhausted
  \/ Reconcile
  \/ StatsLoop
  \/ \E i \in 1..MaxVideos : StatFetch(i)
  \/ \E i \in 1..MaxVideos : StatFetchRetry(i)
  \/ \E i \in 1..MaxVideos : StatFetchExhausted(i)
  \/ StatsJoin
  \/ Format
  \/ \E i \in 1..2 : MkdirOk(i)
  \/ \E i \in 1..2 : WriteOk(i)
  \/ \E i \in 1..2 : WriterFails(i)
  \/ WriteJoin

\* the complete run on a small channel with an inconsistent listing
Spec == Init /\ [][Next]_vars

\* one listing pass over a consistent channel of up to MaxChannel videos
InitLister == \E n \in 0..MaxChannel : InitRun(Upto(n), {})

NextLister ==
  \/ FetchPage(channel)
  \/ FetchPageRetry
  \/ FetchPageExhausted

SpecLister == InitLister /\ [][NextLister]_vars

\* the listing phase of run when the passes report 10, 11 or 12 videos
ScriptCounts == {10, 11, 12}

InitCounts == InitRun(Upto(12), {})

NextCounts ==
  \/ \E n \in ScriptCounts : FetchPage(Upto(n))
  \/ FetchPageRetry
  \/ FetchPageExhausted
  \/ Reconcile

SpecCounts == InitCounts /\ [][NextCounts]_vars

\* #formatData applied to the result of one batch: the selected list holds
\* distinct ids of the channel in any order, any of them deleted
Orderings(S) ==
  {s \in UNION {[1..n -> S] : n \in 0..Cardinality(S)} :
     \A i, j \in 1..Len(s) : s[i] = s[j] => i = j}

InitFormat ==
  \E s \in Orderings(1..MaxVideos) : \E del \in SUBSET Range(s) :
    LET refs  == [i \in 1..Len(s) |-> [id |-> s[i]]]
        stats == [i \in 1..Len(s) |-> FirstItem(VideosList(del, s[i]))]
    IN /\ channel = Upto(MaxVideos)
       /\ deleted = del
       /\ pc = "format"
       /\ lstate = "idle" /\ pageToken = NoToken /\ acc = <<>> /\ attempt = 1
       /\ retryLog = <<>>
       /\ pageFetches = 0 /\ view = <<>>
       /\ passes = <<>>
       /\ videos1 = refs /\ videos2 = refs /\ videos = refs /\ retrys = 0
       /\ statRes = stats /\ statAttempt = [i \in 1..Len(s) |-> 0]
       /\ statLog = [i \in 1..Len(s) |-> <<>>]
       /\ statCalls = Len(s)
       /\ videoStats = stats
       /\ videoStatsAttepts = (IF Len(s) = 0 THEN 0 ELSE 1)
       /\ formattedStats = <<>>
       /\ filePaths = <<>>
       /\ wstate = [i \in 1..2 |-> "idle"]
       /\ files = PriorFiles
       /\ dirs = PriorDirs

NextFormat == Format

SpecFormat == InitFormat /\ [][NextFormat]_vars

(* ------------------------------ properties ----------------------------- *)
\* the counts of the listing passes returned so far
PassCounts == [i \in 1..Len(passes) |-> Len(passes[i])]

\* the reconciliation has just ended: line 55 is about to be evaluated for the
\* first time
ReconciliationEnded == pc = "stats" /\ videoStatsAttepts = 0

\* some video of the selected list has no stat item
SelectedVideoDeleted ==
  /\ pc \notin {"fetch1", "fetch2", "loop", "fetchRetry"}
  /\ \E i \in 1..Len(videos) : videos[i].id \in deleted

\* C1 (as stated): if some video of the selected list persistently has no stat
\* item, the run never reaches the format or persist phase.
C1_NeverReachesFormat ==
  SelectedVideoDeleted => pc \notin {"format", "write", "done"}

\* C1 (amended): a video without stat item still yields one (absent) entry of
\* the batch result, so the batch fetch runs once, its result has the length
\* of the selected list, and the loop test then fails.
C1_AbsentEntryEndsLoop ==
  /\ videoStatsAttepts <= 1
  /\ (SelectedVideoDeleted /\ videoStatsAttepts = 1) =>
       /\ Len(videoStats) = Len(videos)
       /\ \A i \in 1..Len(videos) :
            videos[i].id \in deleted => videoStats[i] = Undefined
       /\ pc \in {"stats", "format", "write", "done", "failed"}

C1_Witness ==
  /\ pc = "write"
  /\ \E i \in 1..Len(videos) : videos[i].id \in deleted /\ videoStats[i] = Undefined

\* C2 (as stated): when the passes return 10, 12, 11, ... the reconciliation
\* ends only after a fourth pass that returns 12 again, with a 12-count result.
C2_FourPasses ==
  (ReconciliationEnded /\ Len(passes) >= 3 /\ SubSeq(PassCounts, 1, 3) = <<10, 12, 11>>)
    => (PassCounts = <<10, 12, 11, 12>> /\ Len(videos) = 12)

\* C2 (amended): when the passes return 10, 12, 11 the reconciliation ends
\* after that third pass (the best count 12 is the count of the second initial
\* pass), no fourth pass is issued, and the second pass's list is selected.
C2_ThreePasses ==
  (Len(passes) >= 3 /\ SubSeq(PassCounts, 1, 3) = <<10, 12, 11>>)
    => /\ PassCounts = <<10, 12, 11>>
       /\ pc = "stats"
       /\ retrys = 0
       /\ videos = passes[2]
       /\ Len(videos) = 12

C2_Witness == ReconciliationEnded /\ PassCounts = <<10, 12, 11>>

\* C3: when the two initial passes return the same count, no additional pass
\* is issued: exactly two passes are performed and reconciliation ends at once.
C3_SameCountTwoPasses ==
  /\ pc = "fetchRetry" => Len(videos1) # Len(videos2)
  /\ (Len(passes) >= 2 /\ PassCounts[1] = PassCounts[2]) =>
       /\ Len(passes) = 2
       /\ pc \in {"loop", "stats"}
       /\ retrys = 0

C3_Witness ==
  ReconciliationEnded /\ Len(passes) = 2 /\ PassCounts = <<2, 2>> /\ passes[1] # passes[2]

\* C4: reconciliation performs at most RetryBudget additional passes (five in
\* all), then goes on to the stats phase; a disagreement of counts is never an
\* error: the listing phase fails only by a rejected page request.
C4_BoundedPasses ==
  /\ Len(passes) <= 2 + RetryBudget
  /\ retrys <= RetryBudget
  /\ pc = "fetchRetry" => Len(passes) < 2 + RetryBudget
  /\ (pc = "loop" /\ Len(passes) = 2 + RetryBudget) => retrys = RetryBudget
  /\ (pc = "loop" /\ Len(passes) >= 2) => Len(passes) <= 2 + retrys
  /\ (pc = "failed" /\ Len(videoStats) = 0 /\ statRes = <<>> /\ wstate[1] = "idle")
       => lstate = "rejected"

C4_Witness ==
  ReconciliationEnded /\ Len(passes) = 2 + RetryBudget /\ videos = passes[4]

\* the largest element of a non-empty sequence of numbers
MaxOf(counts) == CHOOSE m \in Range(counts) : \A c \in Range(counts) : c <= m

\* C5: when reconciliation ends, the selected list is one of the lists the
\* passes of this run returned, and its count is the largest of their counts.
C5_SelectedIsLargest ==
  ReconciliationEnded =>
    /\ videos \in Range(passes)
    /\ Len(videos) = MaxOf(PassCounts)

C5_Witness ==
  /\ ReconciliationEnded
  /\ Len(passes) = 5
  /\ videos = passes[3]
  /\ Len(passes[5]) < Len(videos)

\* the running best count equals the count of an initial pass
BestMatchesInitial == Len(videos) = Len(videos1) \/ Len(videos) = Len(videos2)

\* C6: after an additional pass, reconciliation stops exactly when the running
\* best count equals the count of the first or second pass; otherwise it goes
\* on with another pass while fewer than RetryBudget passes were added.
C6_StopsOnMatch ==
  /\ [](Len(passes) >= 3 =>
         /\ Len(videos1) # Len(videos2)
         /\ pc \in {"loop", "fetchRetry"} => ~BestMatchesInitial
         /\ (ReconciliationEnded /\ ~BestMatchesInitial) =>
              (retrys = RetryBudget /\ Len(passes) = 2 + RetryBudget)
         /\ (ReconciliationEnded /\ BestMatchesInitial) => retrys = Len(passes) - 3)
  /\ [][(pc = "loop" /\ Len(passes) >= 3 /\ pc' # pc) =>
          (pc' = (IF retrys < RetryBudget THEN "fetchRetry" ELSE "stats"))]_vars

C6_Witness ==
  /\ ReconciliationEnded
  /\ PassCounts = <<1, 0, 1>>
  /\ videos = passes[1]

\* the archive path of this run holds content c
BothFilesHold(c) ==
  /\ filePaths # <<>>
  /\ \A i \in 1..2 : filePaths[i] \in DOMAIN files /\ files[filePaths[i]] = c

\* C7: for a channel whose listing is empty on every pass, #getVideoStats is
\* never invoked, the formatter yields the empty mapping, and a completed
\* writer has written {} to its path, so a completed run left {} at both paths.
C7_EmptyChannel ==
  channel = <<>> =>
    /\ statCalls = 0
    /\ statRes = <<>>
    /\ pc \in {"write", "done"} => formattedStats = <<>>
    /\ \A i \in 1..2 : wstate[i] = "done" =>
         (filePaths[i] \in DOMAIN files /\ files[filePaths[i]] = "{}")
    /\ pc = "done" => BothFilesHold("{}")

C7_Witness ==
  /\ channel = <<>>
  /\ pc = "done"
  /\ videos1 = <<>> /\ videos2 = <<>>
  /\ BothFilesHold("{}")
  /\ filePaths[2] \notin DOMAIN PriorFiles

\* the least number of pages of size p that hold n items
CeilDiv(n, p) == (n + p - 1) \div p

\* the ids of a list of video references
Ids(vs) == [i \in 1..Len(vs) |-> vs[i].id]

\* C8 (as stated): a listing pass over a channel of N videos returns exactly
\* its N ids, each once, after ceil(N / maxResults) page fetches.
C8_CeilPageFetches ==
  lstate = "returned" =>
    /\ Ids(acc) = channel
    /\ pageFetches = CeilDiv(Len(channel), maxResults)

\* C8 (amended): a listing pass over a channel of N videos returns exactly its
\* N ids, each once and in listing order, after ceil(N / maxResults) page
\* fetches when N > 0 and after one page fetch when N = 0; failed attempts of a
\* page are not counted, and the pass returns only when no token remains.
C8_PageFetches ==
  /\ lstate = "returned" =>
       /\ Ids(acc) = channel
       /\ Cardinality(Range(Ids(acc))) = Len(channel)
       /\ pageFetches = (IF Len(channel) = 0 THEN 1
                         ELSE CeilDiv(Len(channel), maxResults))
  /\ lstate = "fetching" =>
       /\ pageToken = pageFetches * maxResults
       /\ Ids(acc) = SubSeq(channel, 1, pageToken)
       /\ pageToken < Len(channel) \/ pageToken = NoToken

C8_Witness ==
  /\ lstate = "returned"
  /\ Len(channel) = 2 * maxResults + 1
  /\ pageFetches = 3
  /\ Ids(acc) = channel

\* some page request or some stat request has used up its retries
RetriesExhausted ==
  \/ lstate = "rejected"
  \/ /\ pc = "failed"
     /\ \E i \in 1..Len(statRes) : statRes[i] = Pending /\ statAttempt[i] > Retries

\* C9: when a page request or a stat request exhausts its retries the run is
\* aborted: nothing is formatted, no writer is started, and the files and
\* directories are those the run found.
C9_ExhaustionAborts ==
  RetriesExhausted =>
    /\ pc = "failed"
    /\ formattedStats = <<>>
    /\ filePaths = <<>>
    /\ \A i \in 1..2 : wstate[i] = "idle"
    /\ files = PriorFiles
    /\ dirs = PriorDirs

C9_Witness ==
  /\ pc = "failed"
  /\ \E i \in 1..Len(statRes) :
       /\ statRes[i] = Pending /\ statAttempt[i] > Retries
       /\ \E j \in 1..Len(statRes) : statRes[j] = VideoResource(videos[j].id)
  /\ files = PriorFiles

\* C10: once the run formats, every key of the snapshot is the id of a video of
\* the selected list, keys are not repeated, and the value under a key is the
\* formatted record that the stat fetch returned for that id.
C10_KeysFromSelection ==
  (pc \in {"write", "done"} \/ \E i \in 1..2 : wstate[i] # "idle") =>
    /\ \A j \in 1..Len(formattedStats) :
         \E i \in 1..Len(videos) :
           /\ videos[i].id = formattedStats[j].key
           /\ videoStats[i] # Undefined
           /\ videoStats[i].id = formattedStats[j].key
           /\ formattedStats[j].value = FormatEntry(videoStats[i])
           /\ formattedStats[j].value.title = VideoResource(videos[i].id).snippet.title
    /\ \A j, k \in 1..Len(formattedStats) :
         formattedStats[j].key = formattedStats[k].key => j = k
    /\ \A i \in 1..2 : wstate[i] = "done" =>
         files[filePaths[i]] = Stringify(formattedStats)

C10_Witness ==
  /\ pc = "done"
  /\ Len(videos) = 3
  /\ Len(formattedStats) = 2
  /\ formattedStats[1].key = 1 /\ formattedStats[2].key = 3
  /\ BothFilesHold(Stringify(formattedStats))

\* the keys of a formatted mapping, in insertion order
Keys(obj) == [j \in 1..Len(obj) |-> obj[j].key]

\* the entries of a batch result that are present
Present(stats) == SelectSeq(stats, LAMBDA r : r.kind # "undefined")

\* C11: #formatData skips absent entries: for records of pairwise distinct ids
\* the mapping has exactly one key per present record, in input order, with
\* that record's fields, and no key for an absent entry.
C11_SkipsAbsent ==
  pc = "write" =>
    /\ Len(formattedStats) = Len(Present(videoStats))
    /\ Keys(formattedStats) = Ids(Present(videoStats))
    /\ \A j \in 1..Len(formattedStats) :
         formattedStats[j].value = FormatEntry(Present(videoStats)[j])
    /\ \A i \in 1..Len(videoStats) :
         videoStats[i] = Undefined =>
           \A j \in 1..Len(formattedStats) : formattedStats[j].key # videos[i].id

C11_Witness ==
  /\ pc = "write"
  /\ Len(videoStats) = 3
  /\ videoStats[2] = Undefined
  /\ Keys(formattedStats) = <<3, 1>>

\* C12: the two writers are independent: the file of a finished writer holds
\* the snapshot whatever happens to the other writer, it is not undone when
\* the other writer fails, and a failed writer fails the run.
C12_WritesIndependent ==
  /\ [](\A i \in 1..2 :
         /\ wstate[i] = "done" =>
              (filePaths[i] \in DOMAIN files
                 /\ files[filePaths[i]] = Stringify(formattedStats))
         /\ wstate[i] = "failed" => pc = "failed")
  /\ [][\A i \in 1..2 :
         wstate[i] = "done" =>
           (wstate'[i] = "done" /\ files'[filePaths[i]] = files[filePaths[i]])]_vars

C12_Witness ==
  /\ pc = "failed"
  /\ wstate = <<"failed", "done">>
  /\ Len(formattedStats) = 2
  /\ files[filePaths[2]] = Stringify(formattedStats)
  /\ files[filePaths[1]] = PriorContent

\* log holds exactly k failed-attempt events, numbered 1..k in that order
FailedAttempts(log, k) ==
  /\ Len(log) = k
  /\ \A j \in 1..k : log[j].attemptNumber = j

\* C13: a request that succeeds at attempt k + 1 (k within the retry budget)
\* has logged exactly k failed-attempt events, numbered 1..k, all of them
\* before the success, and the call resolves with the result of the request.
C13_RetryLogsEachFailure ==
  /\ [](lstate \in {"fetching", "returned"} =>
          (attempt - 1 <= Retries /\ FailedAttempts(retryLog, attempt - 1)))
  /\ [](pc = "statsWait" =>
          \A i \in 1..Len(statRes) :
            statRes[i] = Pending =>
              (statAttempt[i] - 1 <= Retries
                 /\ FailedAttempts(statLog[i], statAttempt[i] - 1)))
  /\ [][/\ (lstate = "fetching" /\ pageFetches' = pageFetches + 1) =>
            /\ acc' = acc \o PageVideos(SearchList(view', pageToken))
            /\ lstate' = "returned" => retryLog' = retryLog
        /\ (pc = "statsWait" /\ pc' = "statsWait") =>
            \A i \in 1..Len(statRes) :
              (statRes[i] = Pending /\ statRes'[i] # Pending) =>
                statRes'[i] = FirstItem(VideosList(deleted', videos[i].id))]_vars

C13_Witness ==
  /\ lstate = "returned"
  /\ attempt = 3
  /\ retryLog = <<FailedAttempt(1), FailedAttempt(2)>>
  /\ Len(acc) > 0

\* a and b fall on the same UTC date
SameUTCDate(a, b) == a.year = b.year /\ a.month = b.month /\ a.day = b.day

\* the archive file left by the earlier run
PriorArchive == ArchivePath(getCurrentDateTimeUTC(PriorInstant))

\* the archive path of a run at each instant
ArchiveAt ==
  [now \in Instants \cup {PriorInstant} |-> ArchivePath(getCurrentDateTimeUTC(now))]

\* two instants have the same archive path exactly when they fall on the same
\* UTC date
ArchivePathIsByDate ==
  \A a, b \in DOMAIN ArchiveAt : SameUTCDate(a, b) <=> ArchiveAt[a] = ArchiveAt[b]

C15_CompleteMeansBothWritten ==
  pc = "done" =>
    /\ wstate = <<"done", "done">>
    /\ formattedStats = formatData(videoStats)
    /\ filePaths[1] = PrimaryPath
    /\ filePaths[1] # filePaths[2]
    /\ \A i \in 1..2 :
         /\ filePaths[i] \in DOMAIN files
         /\ dirname(filePaths[i]) \in dirs
         /\ files[filePaths[i]] = Stringify(formatData(videoStats))

C15_Witness ==
  /\ pc = "done"
  /\ Keys(formattedStats) = <<1, 2>>
  /\ files[filePaths[1]] = files[filePaths[2]]
  /\ files[PrimaryPath] # PriorContent
  /\ filePaths[2] # PriorArchive

\* the phases of run
ListingPhase == pc \in {"fetch1", "fetch2", "loop", "fetchRetry"}
WritingPhase == pc \in {"write", "done"}
NoWriterStarted == \A i \in DOMAIN wstate : wstate[i] = "idle"

\* C16: the phases of run are ordered.  A page request is in flight only in
\* the listing phase, and a pass starts only when none is in flight and
\* every earlier pass has been recorded; stat requests are launched only
\* after reconciliation, for the selected list; the slots of a batch settle
\* in any order, and none is pending once the batch has been joined, when
\* formatting happens or later; no writer starts before the snapshot is
\* formatted.
C16_PhasesOrdered ==
  /\ [](lstate = "fetching" => ListingPhase)
  /\ [](ListingPhase =>
          (statCalls = 0 /\ formattedStats = <<>> /\ NoWriterStarted))
  /\ [](pc \in {"stats", "statsWait", "format"} =>
          (lstate = "idle" /\ formattedStats = <<>> /\ NoWriterStarted))
  /\ [](pc = "statsWait" => Len(statRes) = Len(videos))
  /\ []((pc \in {"format", "write", "done"}
            \/ (pc = "stats" /\ videoStatsAttepts > 0)) =>
          /\ Len(videoStats) = Len(videos)
          /\ \A i \in 1..Len(statRes) : statRes[i] # Pending
          /\ \A i \in 1..Len(videoStats) : videoStats[i] # Pending)
  /\ [](~NoWriterStarted =>
          (pc \in {"write", "done", "failed"}
             /\ formattedStats = formatData(videoStats)))
  /\ [][/\ (lstate' = "fetching" /\ pageFetches' = 0
              /\ ~(lstate = "fetching" /\ pageFetches = 0)) =>
            /\ lstate \in {"returned", "idle"}
            /\ lstate = "returned" => passes' = Append(passes, acc)
            /\ Len(passes') >= 1
        /\ statCalls' > statCalls =>
            (pc = "stats" /\ lstate = "idle" /\ videos' = videos
               /\ Len(statRes') = Len(videos))
        /\ (pc = "format" /\ pc' # "format") =>
            (pc' = "write" /\ \A i \in 1..2 : wstate'[i] = "mkdir")]_vars

C16_Witness ==
  /\ pc = "statsWait"
  /\ Len(statRes) = 3
  /\ statRes[1] = Pending /\ statAttempt[1] = 2
  /\ statRes[2] = Pending
  /\ statRes[3] # Pending

\* C17: a joined batch has one entry per id of the selected list, in list
\* order, each the record of that id or the absent value; the number of
\* #getVideoStats calls is then the length of the list, and when formatting
\* is reached the loop has made one batch pass for a non-empty list and none
\* for an empty one, however many entries are absent.
C17_OneBatchPass ==
  /\ (pc = "statsWait" \/ videoStatsAttepts > 0) => statCalls = Len(videos)
  /\ statCalls \in {0, Len(videos)}
  /\ videoStatsAttepts > 0 =>
       /\ Len(videos) > 0
       /\ DOMAIN videoStats = DOMAIN videos
       /\ \A i \in 1..Len(videos) :
            \/ videoStats[i] = Undefined
            \/ videoStats[i] = VideoResource(videos[i].id)
  /\ pc \in {"format", "write", "done"} =>
       videoStatsAttepts = (IF Len(videos) = 0 THEN 0 ELSE 1)

C17_Witness ==
  /\ pc = "format"
  /\ videoStatsAttepts = 1
  /\ statCalls = 3
  /\ videoStats = <<Undefined, Undefined, Undefined>>

\* C18 (as stated): a further additional pass is performed only if the
\* additional pass before it returned strictly more videos than every
\* earlier pass of the run.
C18_NextPassOnlyAfterGrowth ==
  \A k \in 3..(Len(passes) - 1) :
    \A j \in 1..(k - 1) : PassCounts[k] > PassCounts[j]

\* C18 (amended): a second additional pass is performed only if the first
\* additional pass returned strictly more videos than both initial passes;
\* the running best then exceeds both initial counts for good, so the third
\* additional pass follows whatever the second returned, and reconciliation
\* ends after two, three or five passes.  A first additional pass that does
\* not exceed the larger initial count ends reconciliation.
C18_SecondPassOnlyAfterGrowth ==
  /\ Len(passes) >= 4 =>
       /\ PassCounts[1] # PassCounts[2]
       /\ PassCounts[3] > PassCounts[1]
       /\ PassCounts[3] > PassCounts[2]
  /\ (Len(passes) = 3 /\ PassCounts[3] <= MaxOf(SubSeq(PassCounts, 1, 2))) =>
       ReconciliationEnded
  /\ (Len(passes) = 4 /\ pc # "failed") => pc \in {"loop", "fetchRetry"}
  /\ ReconciliationEnded => Len(passes) \in {2, 3, 5}

C18_Witness ==
  /\ ReconciliationEnded
  /\ PassCounts = <<10, 11, 12, 11, 10>>
  /\ videos = passes[3]

\* C19: when reconciliation ends, the attempt count of the summary line is
\* the number of listing passes performed in this run.
C19_SummaryCountsPasses ==
  ReconciliationEnded => SummaryAttempts(retrys) = Len(passes)

====
